---------------------------- MODULE Spec2Model ----------------------------
(***************************************************************************)
(* A model of the Cloudflare Workers AI chat system:                       *)
(*   - MemoryDO (src/worker/memory_do.ts): the per-identity conversation   *)
(*     history kept in Durable Object storage;                             *)
(*   - the /api/chat/stream relay, the synchronous /api/chat turn and the  *)
(*     /api/task requests of the Worker (src/worker/index.ts);             *)
(*   - TaskWorkflow (src/worker/task_workflow.ts): the two-step job run by *)
(*     the Workflows runtime.                                              *)
(*                                                                         *)
(* SpecStore runs concurrent /get, /append and /clear requests against     *)
(* the Durable Object of one identity.  SpecChunk runs one streaming relay *)
(* in which nothing fails over every chunking of an upstream byte stream;  *)
(* SpecRelay adds the failures of the upstream, the client and the store;  *)
(* SpecCancel and SpecQuiet run it on chosen streams.  SpecTurn runs a     *)
(* streaming and a synchronous turn side by side, SpecInput requests with  *)
(* and without their required field, SpecPair the stores of two            *)
(* identities, SpecJob one job instance with retries and resumes, SpecRun  *)
(* the job when no inference call fails, under fairness, SpecPoll a job    *)
(* polled next to a synchronous turn, SpecFault the two turns with a       *)
(* store that fails before the model is called.                            *)
(***************************************************************************)
EXTENDS Integers, Sequences, FiniteSets, TLC

(***************************************************************************)
(* Bounds of the model.                                                    *)
(***************************************************************************)
\* append requests issued for one identity between two clears
MaxAppends == 22
\* pieces of the model's stream in a run that relays without failures
MaxFrames == 2
\* pieces of the model's stream in a run with failures
MaxRelayFrames == 1
\* bytes of a chunk that is not the whole rest of the stream
MaxChunk == 4
\* clear requests issued in one behaviour
MaxClears == 1
\* get requests issued in one behaviour
MaxGets == 1
\* requests issued while another request of the identity is in flight
MaxConcurrent == 1
\* append requests per identity in a run with the clients of two identities
MaxPairAppends == 1
\* times the Workflows runtime re-invokes a step's computation that threw
\* (the runtime's default limit is 5)
MaxRetries == 1
\* times the Workflows runtime interrupts a running instance and resumes it
MaxResumes == 2

(***************************************************************************)
(* Program constants.                                                      *)
(***************************************************************************)
\* memory_do.ts:22   history.slice(-20)
Limit == 20

\* index.ts:19  userId selects the Durable Object (idFromName)
Identities == {"alice", "bob"}
\* requests that can be in flight at the same time
Reqs == {"r1", "r2"}

VARIABLES
    storage,    \* storage[id]: the "history" key of id's Durable Object:
                \*   <<>> when the key is absent, <<h>> when it holds h
    gate,       \* gate[id]: the input gate of id's Durable Object: "open", or
                \*   the request whose storage operation is pending
    req,        \* req[r]: the handler of request r (pc, op, id, msg, history)
    reply,      \* the response of the request that completed last
    quota,      \* quota[id]: the append requests the clients of id may issue
                \*   between two clears (0: the identity has no client)
    arrival,    \* ghost: arrival[id], the appended messages in the order their
                \*   handlers issued the storage read, since the last clear
    log,        \* ghost: log[id], the appended messages in the order they were
                \*   written back, since the last clear
    lastWrite,  \* ghost: lastWrite[id], the last completed write ("none",
                \*   "append", "clear") and whether a clear removed a full history
    issued,     \* ghost: issued[id], the append requests issued for id since
                \*   the last clear
    nClear,     \* ghost: clear requests issued
    nGet,       \* ghost: get requests issued
    concurrent, \* ghost: requests issued while another one was in flight
    \* ---- one POST /api/chat/stream request (src/worker/index.ts) ----
    pc,         \* where the handler stands
    frames,     \* ghost: the pieces the model's stream is made of
    upstream,   \* the bytes of aiStream, the stream AI.run returned
    pos,        \* the bytes of upstream that reader.read() has delivered
    dropped,    \* the chunk whose controller.enqueue threw
    sent,       \* the bytes enqueued on the response stream, in order
    pending,    \* the TextDecoder's state: bytes of an incomplete character
    buffer,     \* let buffer: decoded text not yet cut into frames
    full,       \* let full: the accumulated transcript
    out,        \* the response stream: "open", "closed", "cancelled", "errored"
    error,      \* the exception that start() is throwing ("none" when none)
    closes,     \* calls of controller.close() that closed the stream
    appended,   \* the assistant messages handed to stub.fetch(.../append)
    context,    \* const {history}: the history loaded for the model
    bytewise,   \* ghost: every chunk read so far was a single byte
    message,    \* const {message}: the message of the streaming request's body
    \* ---- one POST /api/chat request (src/worker/index.ts) ----
    chat,       \* the handler: pc, message, history (context), reply, response
    \* ---- the /api/task requests and the TaskWorkflow instance ----
    task,       \* the handler of the last /api/task request
    job         \* the Workflow instance (src/worker/task_workflow.ts)

storeVars == <<storage, gate, req, reply, quota, arrival, log, lastWrite,
               issued, nClear, nGet, concurrent>>

relayVars == <<pc, frames, upstream, pos, dropped, sent, pending, buffer, full,
               out, error, closes, appended, context, bytewise>>

\* the store without the stored histories
StoreRest == <<gate, req, reply, quota, arrival, log, lastWrite, issued, nClear,
               nGet, concurrent>>

\* the other requests of the Worker
apiVars == <<message, chat, task, job>>

vars == <<storeVars, relayVars, apiVars>>

(***************************************************************************)
(* Helpers on sequences.                                                   *)
(***************************************************************************)
Min(a, b) == IF a <= b THEN a ELSE b
Max(a, b) == IF a >= b THEN a ELSE b

\* Array.prototype.slice(-n): the last n elements (all of them when shorter)
LastN(s, n) == SubSeq(s, Max(1, Len(s) - n + 1), Len(s))
\* the first n elements
FirstN(s, n) == SubSeq(s, 1, Min(n, Len(s)))

(***************************************************************************)
(* MemoryDO  (src/worker/memory_do.ts)                                     *)
(***************************************************************************)
\* mutant of Stored: no default for an absent key
StoredNoDefault(id) == IF storage[id] = <<>> THEN <<"undefined">> ELSE storage[id][1]
\* (await this.state.storage.get("history")) ?? []
Stored(id) == IF storage[id] = <<>> THEN <<>> ELSE storage[id][1]

\* mutants of Trimmed: no truncation; keep the oldest 20
TrimmedNoSlice(history) == history
TrimmedKeepOldest(history) == FirstN(history, Limit)
\* const trimmed = history.slice(-20)
Trimmed(history) == LastN(history, Limit)

Idle == [pc |-> "idle", op |-> "none", id |-> "none", msg |-> <<>>, history |-> <<>>]
NoReply == [op |-> "none", id |-> "none", body |-> <<>>, seen |-> <<>>]

\* the message of the n-th append request of an identity: the turns alternate
Message(n) == [role |-> IF n % 2 = 1 THEN "user" ELSE "assistant", content |-> n]

\* The Durable Object delivers an event (a new request, a body that finished
\* reading) only while no storage operation of the object is pending.
GateOpen(id) == gate[id] = "open"

\* another request of the identity is in flight
Busy(r, id) == \E o \in Reqs \ {r} : req[o].pc # "idle" /\ req[o].id = id

\* a client of id issues one more request
Issue(r, id) ==
    /\ req[r].pc = "idle"
    /\ quota[id] > 0
    /\ Busy(r, id) => concurrent < MaxConcurrent
    /\ concurrent' = IF Busy(r, id) THEN concurrent + 1 ELSE concurrent

\* POST /append arrives: the handler starts and awaits request.json()
FetchAppend(r, id) ==
    /\ Issue(r, id)
    /\ GateOpen(id)
    /\ issued[id] < quota[id]
    /\ issued' = [issued EXCEPT ![id] = @ + 1]
    /\ req' = [req EXCEPT ![r] = [Idle EXCEPT !.pc = "json", !.op = "append",
                                              !.id = id, !.msg = Message(issued[id] + 1)]]
    /\ UNCHANGED <<storage, gate, reply, quota, arrival, log, lastWrite, nClear, nGet,
                   relayVars, apiVars>>

\* mutant of AppendRead: the storage read does not close the input gate
AppendReadNoGate(r) ==
    /\ req[r].pc = "json"
    /\ req' = [req EXCEPT ![r].pc = "get"]
    /\ arrival' = [arrival EXCEPT ![req[r].id] = Append(@, req[r].msg)]
    /\ UNCHANGED <<storage, gate, reply, quota, log, lastWrite, issued, nClear, nGet,
                   concurrent,
                   relayVars, apiVars>>
\* request.json() resolves; the handler calls storage.get("history"), which
\* closes the input gate of the object
AppendRead(r) ==
    /\ req[r].pc = "json"
    /\ GateOpen(req[r].id)
    /\ gate' = [gate EXCEPT ![req[r].id] = r]
    /\ req' = [req EXCEPT ![r].pc = "get"]
    /\ arrival' = [arrival EXCEPT ![req[r].id] = Append(@, req[r].msg)]
    /\ UNCHANGED <<storage, reply, quota, log, lastWrite, issued, nClear, nGet,
                   concurrent,
                   relayVars, apiVars>>

\* storage.get resolves: history.push(msg); trimmed = history.slice(-20);
\* the handler calls storage.put("history", trimmed)
AppendPush(r) ==
    /\ req[r].pc = "get"
    /\ req' = [req EXCEPT ![r].pc = "put",
                          ![r].history = Trimmed(Append(Stored(req[r].id), req[r].msg))]
    /\ UNCHANGED <<storage, gate, reply, quota, arrival, log, lastWrite, issued,
                   nClear, nGet, concurrent,
                   relayVars, apiVars>>

\* mutant of AppendPut: every identity is served by the same object
AppendPutShared(r) ==
    /\ req[r].pc = "put"
    /\ storage' = [id \in Identities |-> <<req[r].history>>]
    /\ gate' = [gate EXCEPT ![req[r].id] = IF @ = r THEN "open" ELSE @]
    /\ log' = [log EXCEPT ![req[r].id] = Append(@, req[r].msg)]
    /\ lastWrite' = [lastWrite EXCEPT ![req[r].id] = [op |-> "append", full |-> FALSE]]
    /\ reply' = [op |-> "append", id |-> req[r].id,
                 body |-> <<Len(req[r].history)>>, seen |-> <<>>]
    /\ req' = [req EXCEPT ![r] = Idle]
    /\ UNCHANGED <<quota, arrival, issued, nClear, nGet, concurrent,
                   relayVars, apiVars>>
\* storage.put resolves: the write is durable, the gate opens, the handler
\* answers {ok: true, size: trimmed.length}
AppendPut(r) ==
    /\ req[r].pc = "put"
    /\ storage' = [storage EXCEPT ![req[r].id] = <<req[r].history>>]
    /\ gate' = [gate EXCEPT ![req[r].id] = IF @ = r THEN "open" ELSE @]
    /\ log' = [log EXCEPT ![req[r].id] = Append(@, req[r].msg)]
    /\ lastWrite' = [lastWrite EXCEPT ![req[r].id] = [op |-> "append", full |-> FALSE]]
    /\ reply' = [op |-> "append", id |-> req[r].id,
                 body |-> <<Len(req[r].history)>>, seen |-> <<>>]
    /\ req' = [req EXCEPT ![r] = Idle]
    /\ UNCHANGED <<quota, arrival, issued, nClear, nGet, concurrent,
                   relayVars, apiVars>>

\* GET /get arrives: the handler starts and calls storage.get("history")
FetchGet(r, id) ==
    /\ Issue(r, id)
    /\ GateOpen(id)
    /\ nGet < MaxGets
    /\ nGet' = nGet + 1
    /\ gate' = [gate EXCEPT ![id] = r]
    /\ req' = [req EXCEPT ![r] = [Idle EXCEPT !.pc = "read", !.op = "get", !.id = id]]
    /\ UNCHANGED <<storage, reply, quota, arrival, log, lastWrite, issued, nClear,
                   relayVars, apiVars>>

\* storage.get resolves: the handler answers {history}
GetDone(r) ==
    /\ req[r].pc = "read"
    /\ gate' = [gate EXCEPT ![req[r].id] = IF @ = r THEN "open" ELSE @]
    /\ reply' = [op |-> "get", id |-> req[r].id, body |-> Stored(req[r].id),
                 seen |-> <<log[req[r].id], lastWrite[req[r].id]>>]
    /\ req' = [req EXCEPT ![r] = Idle]
    /\ UNCHANGED <<storage, quota, arrival, log, lastWrite, issued, nClear, nGet,
                   concurrent,
                   relayVars, apiVars>>

\* POST /clear arrives: the handler starts and calls storage.delete("history")
FetchClear(r, id) ==
    /\ Issue(r, id)
    /\ GateOpen(id)
    /\ nClear < MaxClears
    /\ nClear' = nClear + 1
    /\ gate' = [gate EXCEPT ![id] = r]
    /\ req' = [req EXCEPT ![r] = [Idle EXCEPT !.pc = "delete", !.op = "clear", !.id = id]]
    /\ UNCHANGED <<storage, reply, quota, arrival, log, lastWrite, issued, nGet,
                   relayVars, apiVars>>

\* mutant of ClearDone: the delete removes nothing
ClearDoneNoDelete(r) ==
    /\ req[r].pc = "delete"
    /\ gate' = [gate EXCEPT ![req[r].id] = IF @ = r THEN "open" ELSE @]
    /\ arrival' = [arrival EXCEPT ![req[r].id] = <<>>]
    /\ log' = [log EXCEPT ![req[r].id] = <<>>]
    /\ lastWrite' = [lastWrite EXCEPT ![req[r].id] =
                        [op |-> "clear", full |-> Len(Stored(req[r].id)) = Limit]]
    /\ issued' = [issued EXCEPT ![req[r].id] = 0]
    /\ reply' = [op |-> "clear", id |-> req[r].id, body |-> <<>>, seen |-> <<>>]
    /\ req' = [req EXCEPT ![r] = Idle]
    /\ UNCHANGED <<storage, quota, nClear, nGet, concurrent,
                   relayVars, apiVars>>
\* storage.delete resolves: the key is gone, the handler answers {ok: true}
ClearDone(r) ==
    /\ req[r].pc = "delete"
    /\ storage' = [storage EXCEPT ![req[r].id] = <<>>]
    /\ gate' = [gate EXCEPT ![req[r].id] = IF @ = r THEN "open" ELSE @]
    /\ arrival' = [arrival EXCEPT ![req[r].id] = <<>>]
    /\ log' = [log EXCEPT ![req[r].id] = <<>>]
    /\ lastWrite' = [lastWrite EXCEPT ![req[r].id] =
                        [op |-> "clear", full |-> Len(Stored(req[r].id)) = Limit]]
    /\ issued' = [issued EXCEPT ![req[r].id] = 0]
    /\ reply' = [op |-> "clear", id |-> req[r].id, body |-> <<>>, seen |-> <<>>]
    /\ req' = [req EXCEPT ![r] = Idle]
    /\ UNCHANGED <<quota, nClear, nGet, concurrent,
                   relayVars, apiVars>>

(***************************************************************************)
(* Text: strings are sequences of characters, byte streams sequences of    *)
(* bytes.  An ASCII byte is written as its character; "xC3" "xA9" are the  *)
(* two bytes of the character U+00E9.                                      *)
(***************************************************************************)
LF == "\n"
Quote == "\""
\* String.prototype.trim() strips white space and line terminators
WhiteSpace == {" ", "\t", "\n", "\r"}
\* "data:"
DataPrefix == <<"d", "a", "t", "a", ":">>
\* "[DONE]"
DoneMark == <<"[", "D", "O", "N", "E", "]">>
\* "response"
ResponseKey == <<"r", "e", "s", "p", "o", "n", "s", "e">>
Digits == {"0", "1", "2", "3", "4", "5", "6", "7", "8", "9"}

LeadBytes == {"xC3"}
ContBytes == {"xA9"}

\* what the decoder emits for byte i of all: a character, or "skip" for a byte
\* that yields none there (atEnd: all ends the chunk, a cut character is kept)
Emit(all, i, keepCut) ==
    IF all[i] \in LeadBytes
    THEN IF i = Len(all) THEN (IF keepCut THEN "skip" ELSE "U+FFFD")
         ELSE IF all[i + 1] \in ContBytes THEN "U+00E9" ELSE "U+FFFD"
    ELSE IF all[i] \in ContBytes
    THEN IF i > 1 /\ all[i - 1] \in LeadBytes THEN "skip" ELSE "U+FFFD"
    ELSE all[i]

NotSkip(c) == c # "skip"

\* mutant of Decode: decoder.decode(value) without {stream: true}: a character
\* cut by the end of the chunk is replaced, not kept
DecodeNoStream(held, bytes) ==
    LET all == held \o bytes
    IN  [text |-> SelectSeq([i \in 1..Len(all) |-> Emit(all, i, FALSE)], NotSkip),
         pending |-> <<>>]
\* decoder.decode(value, {stream: true}): UTF-8 decoding that keeps the bytes
\* of a character cut by the end of the chunk (held) for the next call
Decode(held, bytes) ==
    LET all == held \o bytes
    IN  [text |-> SelectSeq([i \in 1..Len(all) |-> Emit(all, i, TRUE)], NotSkip),
         pending |-> IF all # <<>> /\ all[Len(all)] \in LeadBytes
                     THEN <<all[Len(all)]>> ELSE <<>>]

Least(S) == CHOOSE i \in S : \A j \in S : i <= j
Greatest(S) == CHOOSE i \in S : \A j \in S : i >= j

\* buffer.indexOf("\n\n"), counted from 1; 0 when there is none
IndexOfDelimiter(s) ==
    LET at == {i \in 1..(Len(s) - 1) : s[i] = LF /\ s[i + 1] = LF}
    IN  IF at = {} THEN 0 ELSE Least(at)

\* frame.split("\n")
RECURSIVE Split(_)
Split(s) ==
    LET at == {i \in 1..Len(s) : s[i] = LF}
    IN  IF at = {} THEN <<s>>
        ELSE <<SubSeq(s, 1, Least(at) - 1)>> \o Split(SubSeq(s, Least(at) + 1, Len(s)))

\* String.prototype.trim()
Trim(s) ==
    LET keep == {i \in 1..Len(s) : s[i] \notin WhiteSpace}
    IN  IF keep = {} THEN <<>> ELSE SubSeq(s, Least(keep), Greatest(keep))

\* String.prototype.startsWith
StartsWith(s, p) == Len(s) >= Len(p) /\ SubSeq(s, 1, Len(p)) = p

\* s cut at every character c
RECURSIVE SplitAt(_, _)
SplitAt(s, c) ==
    LET at == {i \in 1..Len(s) : s[i] = c}
    IN  IF at = {} THEN <<s>>
        ELSE <<SubSeq(s, 1, Least(at) - 1)>> \o SplitAt(SubSeq(s, Least(at) + 1, Len(s)), c)

\* an element of a JSON array: a string without escapes or commas, or a digit
IsItem(p) ==
    \/ /\ Len(p) >= 2 /\ p[1] = Quote /\ p[Len(p)] = Quote
       /\ \A i \in 2..(Len(p) - 1) : p[i] \notin {Quote, "\\", LF}
    \/ Len(p) = 1 /\ p[1] \in Digits
\* the text between [ and ] is a list of elements
IsItems(body) ==
    body = <<>> \/ \A i \in 1..Len(SplitAt(body, ",")) : IsItem(SplitAt(body, ",")[i])
\* the elements of the array
Items(body) ==
    IF body = <<>> THEN <<>>
    ELSE LET parts == SplitAt(body, ",")
         IN  [i \in 1..Len(parts) |->
                 IF parts[i][1] = Quote
                 THEN [type |-> "string", str |-> SubSeq(parts[i], 2, Len(parts[i]) - 1)]
                 ELSE [type |-> "number", str |-> parts[i]]]

\* JSON.parse(text), on the texts the model carries: an object with one
\* member, {"key":"string"} (a string without escapes), {"key":digit} or
\* {"key":[elements]}; every other text of the model is no JSON and throws
JsonParse(p) ==
    LET fail == [ok |-> FALSE, key |-> <<>>, type |-> "none", str |-> <<>>]
        inner == SubSeq(p, 3, Len(p) - 1)
        ends == {i \in 1..Len(inner) : inner[i] = Quote}
        k == IF ends = {} THEN 0 ELSE Least(ends)
        v == SubSeq(inner, k + 2, Len(inner))
        str == SubSeq(v, 2, Len(v) - 1)
    IN  IF ~(Len(p) >= 7 /\ p[1] = "{" /\ p[2] = Quote /\ p[Len(p)] = "}") THEN fail
        ELSE IF k = 0 \/ k + 1 > Len(inner) \/ inner[k + 1] # ":" THEN fail
        ELSE IF /\ Len(v) >= 2 /\ v[1] = Quote /\ v[Len(v)] = Quote
                /\ \A i \in 1..Len(str) : str[i] \notin {Quote, "\\", LF}
             THEN [ok |-> TRUE, key |-> SubSeq(inner, 1, k - 1), type |-> "string",
                   str |-> str]
        ELSE IF Len(v) = 1 /\ v[1] \in Digits
             THEN [ok |-> TRUE, key |-> SubSeq(inner, 1, k - 1), type |-> "number",
                   str |-> <<>>]
        ELSE IF Len(v) >= 2 /\ v[1] = "[" /\ v[Len(v)] = "]" /\ IsItems(SubSeq(v, 2, Len(v) - 1))
             THEN [ok |-> TRUE, key |-> SubSeq(inner, 1, k - 1), type |-> "array",
                   str |-> <<>>, items |-> Items(SubSeq(v, 2, Len(v) - 1))]
        ELSE fail

\* mutant of ProcessLine: full = obj.response instead of full += obj.response
ProcessLineAssign(acc, line) ==
    LET trimmed == Trim(line)
        payload == Trim(SubSeq(trimmed, 6, Len(trimmed)))
        obj == JsonParse(payload)
    IN  IF ~StartsWith(trimmed, DataPrefix) THEN acc
        ELSE IF payload = <<>> \/ payload = DoneMark THEN acc
        ELSE IF obj.ok /\ obj.key = ResponseKey /\ obj.type = "string" THEN obj.str
        ELSE acc
\* mutant of ProcessLine: a payload that does not decode discards the text
\* accumulated so far
ProcessLineResetOnFailure(acc, line) ==
    LET trimmed == Trim(line)
        payload == Trim(SubSeq(trimmed, 6, Len(trimmed)))
        obj == JsonParse(payload)
    IN  IF ~StartsWith(trimmed, DataPrefix) THEN acc
        ELSE IF payload = <<>> \/ payload = DoneMark THEN acc
        ELSE IF ~obj.ok THEN <<>>
        ELSE IF obj.key = ResponseKey /\ obj.type = "string" THEN acc \o obj.str
        ELSE acc
\* mutant of ProcessLine: any string member is taken for text
ProcessLineAnyKey(acc, line) ==
    LET trimmed == Trim(line)
        payload == Trim(SubSeq(trimmed, 6, Len(trimmed)))
        obj == JsonParse(payload)
    IN  IF ~StartsWith(trimmed, DataPrefix) THEN acc
        ELSE IF payload = <<>> \/ payload = DoneMark THEN acc
        ELSE IF obj.ok /\ obj.type = "string" THEN acc \o obj.str
        ELSE acc
\* index.ts:150-161, the body of the loop over the lines of a frame
ProcessLine(acc, line) ==
    LET trimmed == Trim(line)
        payload == Trim(SubSeq(trimmed, 6, Len(trimmed)))
        obj == JsonParse(payload)
    IN  IF ~StartsWith(trimmed, DataPrefix) THEN acc
        ELSE IF payload = <<>> \/ payload = DoneMark THEN acc
        ELSE IF obj.ok /\ obj.key = ResponseKey /\ obj.type = "string" THEN acc \o obj.str
        ELSE acc

\* for (const line of frame.split("\n")) ...
RECURSIVE ProcessLines(_, _)
ProcessLines(acc, lines) ==
    IF lines = <<>> THEN acc
    ELSE ProcessLines(ProcessLine(acc, Head(lines)), Tail(lines))

\* while ((idx = buffer.indexOf("\n\n")) !== -1) { frame = buffer.slice(0, idx);
\*   buffer = buffer.slice(idx + 2); ... }
RECURSIVE Drain(_, _)
Drain(buf, acc) ==
    LET idx == IndexOfDelimiter(buf)
    IN  IF idx = 0 THEN [buffer |-> buf, full |-> acc]
        ELSE Drain(SubSeq(buf, idx + 2, Len(buf)),
                   ProcessLines(acc, Split(SubSeq(buf, 1, idx - 1))))

\* full.trim().length > 0
HasText(acc) == Len(Trim(acc)) > 0

(***************************************************************************)
(* The streams the model emits: sequences of these pieces.                 *)
(***************************************************************************)
\* data: {"response":"Hel"}\n\n
Piece_hel ==
    <<"d", "a", "t", "a", ":", " ", "{", Quote, "r", "e", "s", "p", "o",
      "n", "s", "e", Quote, ":", Quote, "H", "e", "l", Quote, "}", LF, LF>>
\* data: {"response":"lo"}\n\ndata: [DONE]\n\n
Piece_lo ==
    <<"d", "a", "t", "a", ":", " ", "{", Quote, "r", "e", "s", "p", "o",
      "n", "s", "e", Quote, ":", Quote, "l", "o", Quote, "}", LF, LF, "d",
      "a", "t", "a", ":", " ", "[", "D", "O", "N", "E", "]", LF, LF>>
\* data: {"response":" "}\n\n
Piece_sp ==
    <<"d", "a", "t", "a", ":", " ", "{", Quote, "r", "e", "s", "p", "o",
      "n", "s", "e", Quote, ":", Quote, " ", Quote, "}", LF, LF>>
\* data:\ndata: {oops\n\n
Piece_junk ==
    <<"d", "a", "t", "a", ":", LF, "d", "a", "t", "a", ":", " ", "{", "o",
      "o", "p", "s", LF, LF>>
\* : k\ndata: {"usage":1}\ndata:{"response":"\xC3\xA9"}\n\n
Piece_meta ==
    <<":", " ", "k", LF, "d", "a", "t", "a", ":", " ", "{", Quote, "u", "s",
      "a", "g", "e", Quote, ":", "1", "}", LF, "d", "a", "t", "a", ":", "{",
      Quote, "r", "e", "s", "p", "o", "n", "s", "e", Quote, ":", Quote,
      "xC3", "xA9", Quote, "}", LF, LF>>
\* data: {"response":"x"}
Piece_tail ==
    <<"d", "a", "t", "a", ":", " ", "{", Quote, "r", "e", "s", "p", "o",
      "n", "s", "e", Quote, ":", Quote, "x", Quote, "}">>
\* : k\ndata: {"id":"x"}\n\ndata: [DONE]\n\n
Piece_none ==
    <<":", " ", "k", LF, "d", "a", "t", "a", ":", " ", "{", Quote, "i", "d",
      Quote, ":", Quote, "x", Quote, "}", LF, LF, "d", "a", "t", "a", ":",
      " ", "[", "D", "O", "N", "E", "]", LF, LF>>
PieceNames == {"hel", "lo", "sp", "junk", "meta", "tail"}

PieceBytes(p) ==
    CASE p = "hel" -> Piece_hel
      [] p = "lo" -> Piece_lo
      [] p = "sp" -> Piece_sp
      [] p = "junk" -> Piece_junk
      [] p = "meta" -> Piece_meta
      [] p = "tail" -> Piece_tail
      [] p = "none" -> Piece_none

\* sequences of 1..n pieces; the piece without a delimiter can only come last
Streams(n) ==
    {f \in UNION {[1..k -> PieceNames] : k \in 1..n} :
        \A i \in 1..(Len(f) - 1) : f[i] # "tail"}

RECURSIVE Bytes(_)
Bytes(f) == IF f = <<>> THEN <<>> ELSE PieceBytes(Head(f)) \o Bytes(Tail(f))

(***************************************************************************)
(* POST /api/chat/stream  (src/worker/index.ts:90-186)                     *)
(***************************************************************************)
\* url.searchParams.get("user")
User == "alice"
\* JSON.stringify({ role: "user", content: message })
UserMessage == [role |-> "user", content |-> message]

\* stub.fetch("https://memory/append", ...) as one step: the Durable Object
\* serializes the append (C1)
DoAppend(id, msg) ==
    storage' = [storage EXCEPT ![id] = <<Trimmed(Append(Stored(id), msg))>>]

\* the bytes reader.read() has delivered so far
Received == SubSeq(upstream, 1, pos)

\* mutant of StreamAppendUser: the user message is not saved before the stream
StreamAppendUserSkipped ==
    /\ pc = "user"
    /\ pc' = "history"
    /\ UNCHANGED <<storage, frames, upstream, pos, dropped, sent, pending, buffer, full,
                   out, error, closes, appended, context, bytewise,
                   StoreRest, apiVars>>
\* index.ts:94 save the user message first
StreamAppendUser ==
    /\ pc = "user"
    /\ DoAppend(User, UserMessage)
    /\ pc' = "history"
    /\ UNCHANGED <<frames, upstream, pos, dropped, sent, pending, buffer, full, out,
                   error, closes, appended, context, bytewise,
                   StoreRest, apiVars>>

\* index.ts:101 load the history for context
StreamGetHistory ==
    /\ pc = "history"
    /\ context' = Stored(User)
    /\ pc' = "run"
    /\ UNCHANGED <<storage, frames, upstream, pos, dropped, sent, pending, buffer, full,
                   out, error, closes, appended, bytewise,
                   StoreRest, apiVars>>

\* index.ts:94 the append of the user message rejects (the Durable Object
\* threw, or could not be reached): the handler throws before a response
\* exists and the request fails
StreamAppendUserFail ==
    /\ pc = "user"
    /\ error' = "store"
    /\ pc' = "failed"
    /\ UNCHANGED <<storage, frames, upstream, pos, dropped, sent, pending, buffer, full,
                   out, closes, appended, context, bytewise,
                   StoreRest, apiVars>>

\* index.ts:101-102 the read of the history rejects: the handler throws
StreamGetHistoryFail ==
    /\ pc = "history"
    /\ error' = "store"
    /\ pc' = "failed"
    /\ UNCHANGED <<storage, frames, upstream, pos, dropped, sent, pending, buffer, full,
                   out, closes, appended, context, bytewise,
                   StoreRest, apiVars>>

\* index.ts:111 env.AI.run(..., stream: true) returns aiStream; the response
\* is returned and start(controller) gets the reader
StreamRun ==
    /\ pc = "run"
    /\ upstream' = Bytes(frames)
    /\ out' = "open"
    /\ pc' = "read"
    /\ UNCHANGED <<storage, frames, pos, dropped, sent, pending, buffer, full, error,
                   closes, appended, context, bytewise,
                   StoreRest, apiVars>>

\* mutant of Enqueue: the chunk is not forwarded
EnqueueDropped(queue, chunk) == queue
\* index.ts:136 controller.enqueue(value) on an open response stream
Enqueue(queue, chunk) == queue \o chunk

\* mutant of ParseChunk: the buffer does not persist from chunk to chunk
ParseChunkFreshBuffer(st, chunk) ==
    LET d == Decode(st.pending, chunk)
        r == Drain(d.text, st.full)
    IN  [pending |-> d.pending, buffer |-> r.buffer, full |-> r.full]
\* index.ts:139-163 decode the chunk, add it to the buffer, take the complete
\* frames out of the buffer and accumulate their text
ParseChunk(st, chunk) ==
    LET d == Decode(st.pending, chunk)
        r == Drain(st.buffer \o d.text, st.full)
    IN  [pending |-> d.pending, buffer |-> r.buffer, full |-> r.full]

\* the sizes of the next chunk when rest bytes are left: a few bytes, or all
ChunkSizes(rest) == {n \in (1..MaxChunk) \cup {rest} : 1 <= n /\ n <= rest}

\* index.ts:132-163 one iteration of the loop: reader.read() resolves with the
\* next chunk; the chunk is forwarded, then parsed.  Nothing else
\* runs between the read and the next await.  controller.enqueue throws when
\* the response stream is no longer open (the client went away).
ReadChunk ==
    /\ pc = "read"
    /\ \E n \in ChunkSizes(Len(upstream) - pos) :
       \E chunk \in {SubSeq(upstream, pos + 1, pos + n)} :
          /\ pos' = pos + n
          /\ bytewise' = (bytewise /\ n = 1)
          /\ IF out = "open"
             THEN /\ sent' = Enqueue(sent, chunk)
                  /\ \E st \in {ParseChunk([pending |-> pending, buffer |-> buffer,
                                            full |-> full], chunk)} :
                        /\ pending' = st.pending
                        /\ buffer' = st.buffer
                        /\ full' = st.full
                  /\ pc' = "read"
                  /\ UNCHANGED <<error, dropped>>
             ELSE /\ error' = "enqueue"
                  /\ dropped' = chunk
                  /\ pc' = "finally"
                  /\ UNCHANGED <<sent, pending, buffer, full>>
    /\ UNCHANGED <<storage, frames, upstream, out, closes, appended, context,
                   StoreRest, apiVars>>

\* mutant of ReadDone: at the end of input what is left in the buffer is
\* parsed as a last frame
ReadDoneFlush ==
    /\ pc = "read"
    /\ pos = Len(upstream)
    /\ full' = ProcessLines(full, Split(buffer))
    /\ buffer' = <<>>
    /\ pc' = "finally"
    /\ UNCHANGED <<storage, frames, upstream, pos, dropped, sent, pending,
                   out, error, closes, appended, context, bytewise,
                   StoreRest, apiVars>>
\* index.ts:132-133 reader.read() resolves with done: break
ReadDone ==
    /\ pc = "read"
    /\ pos = Len(upstream)
    /\ pc' = "finally"
    /\ UNCHANGED <<storage, frames, upstream, pos, dropped, sent, pending, buffer, full,
                   out, error, closes, appended, context, bytewise,
                   StoreRest, apiVars>>

\* index.ts:132 reader.read() rejects: the upstream failed
ReadError ==
    /\ pc = "read"
    /\ error' = "read"
    /\ pc' = "finally"
    /\ UNCHANGED <<storage, frames, upstream, pos, dropped, sent, pending, buffer, full,
                   out, closes, appended, context, bytewise,
                   StoreRest, apiVars>>

\* mutant of Finally: the transcript is stored only when the loop ended
\* without an exception
FinallyOnSuccess ==
    /\ pc = "finally"
    /\ IF HasText(full) /\ error = "none"
       THEN /\ appended' = Append(appended, [role |-> "assistant", content |-> full])
            /\ pc' = "append"
       ELSE /\ appended' = appended
            /\ pc' = "close"
    /\ UNCHANGED <<storage, frames, upstream, pos, dropped, sent, pending, buffer, full,
                   out, error, closes, context, bytewise,
                   StoreRest, apiVars>>
\* mutant of Finally: the transcript is stored trimmed
FinallyTrimmed ==
    /\ pc = "finally"
    /\ IF HasText(full)
       THEN /\ appended' = Append(appended, [role |-> "assistant", content |-> Trim(full)])
            /\ pc' = "append"
       ELSE /\ appended' = appended
            /\ pc' = "close"
    /\ UNCHANGED <<storage, frames, upstream, pos, dropped, sent, pending, buffer, full,
                   out, error, closes, context, bytewise,
                   StoreRest, apiVars>>
\* index.ts:165-172 finally: if (full.trim().length > 0) stub.fetch(append)
Finally ==
    /\ pc = "finally"
    /\ IF HasText(full)
       THEN /\ appended' = Append(appended, [role |-> "assistant", content |-> full])
            /\ pc' = "append"
       ELSE /\ appended' = appended
            /\ pc' = "close"
    /\ UNCHANGED <<storage, frames, upstream, pos, dropped, sent, pending, buffer, full,
                   out, error, closes, context, bytewise,
                   StoreRest, apiVars>>

\* index.ts:168 the append resolves
AppendOk ==
    /\ pc = "append"
    /\ DoAppend(User, appended[Len(appended)])
    /\ pc' = "close"
    /\ UNCHANGED <<frames, upstream, pos, dropped, sent, pending, buffer, full, out,
                   error, closes, appended, context, bytewise,
                   StoreRest, apiVars>>

\* index.ts:168 the append rejects (the Durable Object threw, or could not be
\* reached): the exception leaves the finally block before controller.close(),
\* start() rejects and the response stream is errored
AppendFail ==
    /\ pc = "append"
    /\ error' = "append"
    /\ out' = IF out = "open" THEN "errored" ELSE out
    /\ pc' = "done"
    /\ UNCHANGED <<storage, frames, upstream, pos, dropped, sent, pending, buffer, full,
                   closes, appended, context, bytewise,
                   StoreRest, apiVars>>

\* index.ts:174 controller.close(): closes the response stream, or throws when
\* it is no longer open; then start() returns, or rethrows the loop's exception
\* (which a closed stream ignores)
Close ==
    /\ pc = "close"
    /\ IF out = "open"
       THEN /\ out' = "closed"
            /\ closes' = closes + 1
            /\ error' = error
       ELSE /\ out' = out
            /\ closes' = closes
            /\ error' = "close"
    /\ pc' = "done"
    /\ UNCHANGED <<storage, frames, upstream, pos, dropped, sent, pending, buffer, full,
                   appended, context, bytewise,
                   StoreRest, apiVars>>

\* the client disconnects while the handler awaits the next chunk: the
\* response stream is cancelled
ClientCancel ==
    /\ pc = "read"
    /\ out = "open"
    /\ out' = "cancelled"
    /\ UNCHANGED <<storage, pc, frames, upstream, pos, dropped, sent, pending, buffer,
                   full, error, closes, appended, context, bytewise,
                   StoreRest, apiVars>>

(***************************************************************************)
(* POST /api/chat  (src/worker/index.ts:24-61)                             *)
(***************************************************************************)
\* the value of a field the request body does not have (no text)
Undefined == <<"undefined">>
\* message texts of request bodies
Hi == <<"h", "i">>
Yo == <<"y", "o">>

\* no /api/chat request
ChatOff == [pc |-> "off", message |-> Undefined, context |-> <<>>,
            reply |-> Undefined, response |-> "none", fault |-> "none"]
\* the handler has read the body of the request
ChatStart(m) == [pc |-> "user", message |-> m, context |-> <<>>,
                 reply |-> Undefined, response |-> "none", fault |-> "none"]

\* what env.AI.run resolves with: an object with a response, with an
\* output_text, with neither, or nothing
Results == {[response |-> <<"O", "K">>], [output_text |-> <<"o", "t">>],
            [usage |-> 1], [none |-> TRUE]}

\* JSON.stringify(result) of the result {"usage":1}
UsageText == <<"{", Quote, "u", "s", "a", "g", "e", Quote, ":", "1", "}">>

\* index.ts:51-52 result?.response ?? result?.output_text ?? JSON.stringify(result)
Reply(result) ==
    IF "response" \in DOMAIN result THEN result.response
    ELSE IF "output_text" \in DOMAIN result THEN result.output_text
    ELSE IF "usage" \in DOMAIN result THEN UsageText
    ELSE Undefined

\* index.ts:27 save the user message
ChatAppendUser ==
    /\ chat.pc = "user"
    /\ DoAppend(User, [role |-> "user", content |-> chat.message])
    /\ chat' = [chat EXCEPT !.pc = "history"]
    /\ UNCHANGED <<StoreRest, relayVars, message, task, job>>

\* mutant of ChatAppendUserFail: the failed append is caught and the turn
\* goes on
ChatAppendUserFailIgnored ==
    /\ chat.pc = "user"
    /\ chat' = [chat EXCEPT !.pc = "history", !.fault = "append"]
    /\ UNCHANGED <<storeVars, relayVars, message, task, job>>
\* index.ts:27 the append of the user message rejects: the handler throws and
\* the request fails
ChatAppendUserFail ==
    /\ chat.pc = "user"
    /\ chat' = [chat EXCEPT !.pc = "failed", !.response = [status |-> 500],
                            !.fault = "append"]
    /\ UNCHANGED <<storeVars, relayVars, message, task, job>>

\* index.ts:33-34 the read of the history rejects: the handler throws
ChatGetHistoryFail ==
    /\ chat.pc = "history"
    /\ chat' = [chat EXCEPT !.pc = "failed", !.response = [status |-> 500],
                            !.fault = "read"]
    /\ UNCHANGED <<storeVars, relayVars, message, task, job>>

\* index.ts:33-34 load the history
ChatGetHistory ==
    /\ chat.pc = "history"
    /\ chat' = [chat EXCEPT !.pc = "run", !.context = Stored(User)]
    /\ UNCHANGED <<storeVars, relayVars, message, task, job>>

\* index.ts:42-52 env.AI.run resolves; the reply is taken from the result
ChatRun ==
    /\ chat.pc = "run"
    /\ \E result \in Results :
          chat' = [chat EXCEPT !.pc = "assistant", !.reply = Reply(result)]
    /\ UNCHANGED <<storeVars, relayVars, message, task, job>>

\* index.ts:42 env.AI.run rejects: the handler throws and the request fails
ChatRunFail ==
    /\ chat.pc = "run"
    /\ chat' = [chat EXCEPT !.pc = "failed", !.response = [status |-> 500],
                            !.fault = "model"]
    /\ UNCHANGED <<storeVars, relayVars, message, task, job>>

\* mutant of ChatAppendAssistant: the reply is returned without being stored
ChatAppendAssistantSkipped ==
    /\ chat.pc = "assistant"
    /\ chat' = [chat EXCEPT !.pc = "done",
                            !.response = [status |-> 200, reply |-> chat.reply]]
    /\ UNCHANGED <<storeVars, relayVars, message, task, job>>
\* index.ts:54-60 save the reply, then return it
ChatAppendAssistant ==
    /\ chat.pc = "assistant"
    /\ DoAppend(User, [role |-> "assistant", content |-> chat.reply])
    /\ chat' = [chat EXCEPT !.pc = "done",
                            !.response = [status |-> 200, reply |-> chat.reply]]
    /\ UNCHANGED <<StoreRest, relayVars, message, task, job>>

(***************************************************************************)
(* TaskWorkflow  (src/worker/task_workflow.ts)                             *)
(***************************************************************************)
\* texts the model answers the planning prompt with
\* {"plan":["a","b","c","d"]}
T_four ==
    <<"{", Quote, "p", "l", "a", "n", Quote, ":", "[", Quote, "a", Quote,
      ",", Quote, "b", Quote, ",", Quote, "c", Quote, ",", Quote, "d", Quote,
      "]", "}">>
\* {"plan":["a"]}
T_one ==
    <<"{", Quote, "p", "l", "a", "n", Quote, ":", "[", Quote, "a", Quote,
      "]", "}">>
\* {"plan":[]}
T_empty ==
    <<"{", Quote, "p", "l", "a", "n", Quote, ":", "[", "]", "}">>
\* {"plan":[1,"b"]}
T_mixed ==
    <<"{", Quote, "p", "l", "a", "n", Quote, ":", "[", "1", ",", Quote, "b",
      Quote, "]", "}">>
\* {"plan":"a"}
T_string ==
    <<"{", Quote, "p", "l", "a", "n", Quote, ":", Quote, "a", Quote, "}">>
\* {"steps":["a"]}
T_steps ==
    <<"{", Quote, "s", "t", "e", "p", "s", Quote, ":", "[", Quote, "a",
      Quote, "]", "}">>
\* Sure!
T_prose ==
    <<"S", "u", "r", "e", "!">>
\* {"plan":["a"
T_cut ==
    <<"{", Quote, "p", "l", "a", "n", Quote, ":", "[", Quote, "a", Quote>>
PlanTexts == {T_four, T_one, T_empty, T_mixed, T_string, T_steps, T_prose, T_cut}

\* what env.AI.run resolves with in the plan step
PlanResults ==
    {[response |-> t] : t \in PlanTexts} \cup {[output_text |-> T_one], [none |-> TRUE]}
\* what env.AI.run resolves with in the execute step
ExecuteResults == {[response |-> <<"R">>], [output_text |-> <<"o">>], [none |-> TRUE]}

\* task_workflow.ts:35,59 String(r?.response ?? r?.output_text ?? "")
Text(r) ==
    IF "response" \in DOMAIN r THEN r.response
    ELSE IF "output_text" \in DOMAIN r THEN r.output_text
    ELSE <<>>

\* task_workflow.ts:9-15 JSON.parse(text), or null when it throws
SafeJsonParse(text) ==
    LET obj == JsonParse(text)
    IN  IF obj.ok THEN obj
        ELSE [ok |-> FALSE, key |-> <<>>, type |-> "null", str |-> <<>>]

\* "plan"
PlanKey == <<"p", "l", "a", "n">>
\* task_workflow.ts:39 .slice(0, 3)
PlanLimit == 3
\* task_workflow.ts:42 ["Clarify goal", "Do the main work", "Summarize output"]
Fallback ==
    <<
      <<"C", "l", "a", "r", "i", "f", "y", " ", "g", "o", "a", "l">>,
      <<"D", "o", " ", "t", "h", "e", " ", "m", "a", "i", "n", " ", "w", "o",
      "r", "k">>,
      <<"S", "u", "m", "m", "a", "r", "i", "z", "e", " ", "o", "u", "t", "p",
      "u", "t">>
    >>

\* obj.plan.map((s) => String(s))
Strings(items) == [i \in 1..Len(items) |-> items[i].str]

\* mutant of PlanSteps: no fallback, an empty plan instead
PlanStepsNoFallback(r) ==
    LET obj == SafeJsonParse(Text(r))
    IN  IF obj.ok /\ obj.key = PlanKey /\ obj.type = "array"
        THEN FirstN(Strings(obj.items), PlanLimit)
        ELSE <<>>
\* mutant of PlanSteps: the plan is not cut to three items
PlanStepsNoSlice(r) ==
    LET obj == SafeJsonParse(Text(r))
    IN  IF obj.ok /\ obj.key = PlanKey /\ obj.type = "array"
        THEN Strings(obj.items)
        ELSE Fallback
\* task_workflow.ts:35-42 the plan the computation of the plan step returns
PlanSteps(r) ==
    LET obj == SafeJsonParse(Text(r))
    IN  IF obj.ok /\ obj.key = PlanKey /\ obj.type = "array"
        THEN FirstN(Strings(obj.items), PlanLimit)
        ELSE Fallback

\* no /api/task request
TaskOff == [pc |-> "off", op |-> "none", response |-> "none"]

StepNames == {"plan", "execute"}
Zero == [n \in StepNames |-> 0]
\* no Workflow instance
NoJob ==
    [status |-> "none", pc |-> "idle", goal |-> Undefined,
     steps |-> [n \in StepNames |-> <<>>], plan |-> <<>>, result |-> <<>>,
     output |-> <<>>, error |-> "none", attempts |-> 0, resumes |-> 0,
     started |-> Zero, completed |-> Zero, raised |-> Zero, model |-> "none",
     prompt |-> <<>>]

\* the instance has a result recorded for the step
Recorded(n) == job.steps[n] # <<>>

\* goals of request bodies
Goals == {<<"g">>, Undefined}
InstanceIds == {<<"i", "d", "1">>, Undefined}

\* index.ts:64-72 POST /api/task: create an instance with the goal of the
\* body, answer its id and status
TaskCreate ==
    /\ job.status = "none"
    /\ \E g \in Goals :
          /\ job' = [job EXCEPT !.status = "queued", !.goal = g]
          /\ task' = [pc |-> "done", op |-> "create",
                      response |-> [status |-> 200, id |-> <<"i", "d", "1">>,
                                   state |-> "queued"]]
    /\ UNCHANGED <<storeVars, relayVars, message, chat>>

\* mutant of TaskStatus: the poll creates the instance anew before it reads
\* its status
TaskStatusRestart ==
    /\ job.status # "none"
    /\ \E id \in InstanceIds :
          /\ task' = IF id = Undefined
                      THEN [pc |-> "done", op |-> "status", response |-> [status |-> 400]]
                      ELSE [pc |-> "done", op |-> "status",
                            response |-> [status |-> 200, state |-> "queued"]]
          /\ job' = IF id = Undefined THEN job
                     ELSE [NoJob EXCEPT !.status = "queued", !.goal = job.goal]
    /\ UNCHANGED <<storeVars, relayVars, message, chat>>
\* index.ts:75-81 GET /api/task?instanceId=...: 400 without instanceId,
\* otherwise the status of the instance
TaskStatus ==
    /\ job.status # "none"
    /\ \E id \in InstanceIds :
          task' = IF id = Undefined
                  THEN [pc |-> "done", op |-> "status", response |-> [status |-> 400]]
                  ELSE [pc |-> "done", op |-> "status",
                        response |-> [status |-> 200, state |-> job.status]]
    /\ UNCHANGED <<storeVars, relayVars, message, chat, job>>

\* the runtime starts the instance: run(event, step) is invoked
JobStart ==
    /\ job.status = "queued"
    /\ job' = [job EXCEPT !.status = "running", !.pc = "plan"]
    /\ UNCHANGED <<storeVars, relayVars, message, chat, task>>

\* mutant of PlanDo: the plan is computed outside step.do, on every run
PlanDoNoMemo ==
    /\ job.status = "running"
    /\ job.pc = "plan"
    /\ job' = [job EXCEPT !.pc = "planning", !.started["plan"] = @ + 1]
    /\ UNCHANGED <<storeVars, relayVars, message, chat, task>>
\* task_workflow.ts:21 step.do("plan", ...): a recorded result is returned
\* without invoking the computation, otherwise the computation is invoked
PlanDo ==
    /\ job.status = "running"
    /\ job.pc = "plan"
    /\ job' = IF Recorded("plan")
              THEN [job EXCEPT !.pc = "execute", !.plan = job.steps["plan"][1]]
              ELSE [job EXCEPT !.pc = "planning", !.started["plan"] = @ + 1]
    /\ UNCHANGED <<storeVars, relayVars, message, chat, task>>

\* task_workflow.ts:22-43 env.AI.run resolves, the computation returns the
\* plan; the runtime records it under "plan" and step.do resolves with it
PlanReturn ==
    /\ job.status = "running"
    /\ job.pc = "planning"
    /\ \E r \in PlanResults :
          job' = [job EXCEPT !.pc = "execute", !.plan = PlanSteps(r),
                             !.steps["plan"] = <<PlanSteps(r)>>,
                             !.completed["plan"] = @ + 1,
                             !.attempts = 0, !.model = r]
    /\ UNCHANGED <<storeVars, relayVars, message, chat, task>>

\* task_workflow.ts:21-22 env.AI.run rejects and the computation throws.
\* step.do is called without a WorkflowStepConfig: the runtime applies its
\* default retry policy and invokes the computation again; when the retries
\* are used up step.do rejects, run() throws and the instance is errored
PlanRaise ==
    /\ job.status = "running"
    /\ job.pc = "planning"
    /\ job' = IF job.attempts < MaxRetries
              THEN [job EXCEPT !.attempts = @ + 1, !.raised["plan"] = @ + 1,
                               !.started["plan"] = @ + 1]
              ELSE [job EXCEPT !.status = "errored", !.pc = "idle",
                               !.raised["plan"] = @ + 1, !.error = "plan"]
    /\ UNCHANGED <<storeVars, relayVars, message, chat, task>>

\* mutant of ExecuteDo: the execute step is started without the plan
ExecuteDoEarly ==
    /\ job.status = "running"
    /\ job.pc \in {"plan", "execute"}
    /\ job' = IF Recorded("execute")
              THEN [job EXCEPT !.pc = "return", !.result = job.steps["execute"][1]]
              ELSE [job EXCEPT !.pc = "executing", !.started["execute"] = @ + 1,
                               !.prompt = <<job.plan>>]
    /\ UNCHANGED <<storeVars, relayVars, message, chat, task>>
\* task_workflow.ts:45 step.do("execute", ...): the computation, when it is
\* invoked, puts the plan in its prompt (line 53)
ExecuteDo ==
    /\ job.status = "running"
    /\ job.pc = "execute"
    /\ job' = IF Recorded("execute")
              THEN [job EXCEPT !.pc = "return", !.result = job.steps["execute"][1]]
              ELSE [job EXCEPT !.pc = "executing", !.started["execute"] = @ + 1,
                               !.prompt = <<job.plan>>]
    /\ UNCHANGED <<storeVars, relayVars, message, chat, task>>

\* task_workflow.ts:46-60 env.AI.run resolves, the computation returns its
\* text; the runtime records it under "execute"
ExecuteReturn ==
    /\ job.status = "running"
    /\ job.pc = "executing"
    /\ \E r \in ExecuteResults :
          job' = [job EXCEPT !.pc = "return", !.result = Text(r),
                             !.steps["execute"] = <<Text(r)>>,
                             !.completed["execute"] = @ + 1,
                             !.attempts = 0]
    /\ UNCHANGED <<storeVars, relayVars, message, chat, task>>

\* task_workflow.ts:45-46 env.AI.run rejects in the execute step
ExecuteRaise ==
    /\ job.status = "running"
    /\ job.pc = "executing"
    /\ job' = IF job.attempts < MaxRetries
              THEN [job EXCEPT !.attempts = @ + 1, !.raised["execute"] = @ + 1,
                               !.started["execute"] = @ + 1]
              ELSE [job EXCEPT !.status = "errored", !.pc = "idle",
                               !.raised["execute"] = @ + 1, !.error = "execute"]
    /\ UNCHANGED <<storeVars, relayVars, message, chat, task>>

\* mutant of RunReturn: step.do("execute") is not awaited, run() returns
\* while the execute step has not resolved
RunReturnEarly ==
    /\ job.status = "running"
    /\ job.pc \in {"execute", "return"}
    /\ job' = [job EXCEPT !.status = "complete", !.pc = "idle",
                          !.output = <<[plan |-> job.plan, result |-> job.result]>>]
    /\ UNCHANGED <<storeVars, relayVars, message, chat, task>>
\* task_workflow.ts:62 return { plan, result }: the instance is complete
RunReturn ==
    /\ job.status = "running"
    /\ job.pc = "return"
    /\ job' = [job EXCEPT !.status = "complete", !.pc = "idle",
                          !.output = <<[plan |-> job.plan, result |-> job.result]>>]
    /\ UNCHANGED <<storeVars, relayVars, message, chat, task>>

\* mutant of Resume: the runtime restarts an instance in any state
ResumeAny ==
    /\ job.status \in {"running", "complete", "errored"}
    /\ job.resumes < MaxResumes
    /\ job' = [job EXCEPT !.status = "running", !.pc = "plan", !.plan = <<>>,
                          !.result = <<>>, !.resumes = @ + 1]
    /\ UNCHANGED <<storeVars, relayVars, message, chat, task>>
\* the runtime interrupts the running instance (eviction, restart) and
\* resumes it: run() is invoked again from its first line, the recorded step
\* results are kept, a computation in flight is lost
Resume ==
    /\ job.status = "running"
    /\ job.resumes < MaxResumes
    /\ job' = [job EXCEPT !.pc = "plan", !.plan = <<>>, !.result = <<>>,
                          !.resumes = @ + 1]
    /\ UNCHANGED <<storeVars, relayVars, message, chat, task>>


(***************************************************************************)
(* Specifications.                                                         *)
(***************************************************************************)
\* no streaming request
RelayOff ==
    /\ pc = "off"
    /\ frames = <<>>
    /\ upstream = <<>>
    /\ pos = 0
    /\ dropped = <<>>
    /\ sent = <<>>
    /\ pending = <<>>
    /\ buffer = <<>>
    /\ full = <<>>
    /\ out = "none"
    /\ error = "none"
    /\ closes = 0
    /\ appended = <<>>
    /\ context = <<>>
    /\ bytewise = TRUE

\* the Durable Objects after construction, no request in flight
StoreIdle(q) ==
    /\ storage = [id \in Identities |-> <<>>]
    /\ gate = [id \in Identities |-> "open"]
    /\ req = [r \in Reqs |-> Idle]
    /\ reply = NoReply
    /\ quota = q
    /\ arrival = [id \in Identities |-> <<>>]
    /\ log = [id \in Identities |-> <<>>]
    /\ lastWrite = [id \in Identities |-> [op |-> "none", full |-> FALSE]]
    /\ issued = [id \in Identities |-> 0]
    /\ nClear = 0
    /\ nGet = 0
    /\ concurrent = 0

\* no request but those of the Conversation Store's clients and the stream
OthersOff ==
    /\ chat = ChatOff
    /\ task = TaskOff
    /\ job = NoJob

\* the clients of this run: those of one identity, with long histories
InitStore ==
    /\ StoreIdle([id \in Identities |-> IF id = "alice" THEN MaxAppends ELSE 0])
    /\ RelayOff
    /\ message = Undefined
    /\ OthersOff

NextStore ==
    \/ \E r \in Reqs, id \in Identities : FetchAppend(r, id)
    \/ \E r \in Reqs : AppendRead(r)
    \/ \E r \in Reqs : AppendPush(r)
    \/ \E r \in Reqs : AppendPut(r)
    \/ \E r \in Reqs, id \in Identities : FetchGet(r, id)
    \/ \E r \in Reqs : GetDone(r)
    \/ \E r \in Reqs, id \in Identities : FetchClear(r, id)
    \/ \E r \in Reqs : ClearDone(r)

\* concurrent requests against the Conversation Store
SpecStore == InitStore /\ [][NextStore]_vars

\* one streaming request whose model stream is one of a set of streams
InitStreams(S) ==
    /\ StoreIdle([id \in Identities |-> 0])
    /\ pc = "user"
    /\ frames \in S
    /\ upstream = <<>>
    /\ pos = 0
    /\ dropped = <<>>
    /\ sent = <<>>
    /\ pending = <<>>
    /\ buffer = <<>>
    /\ full = <<>>
    /\ out = "none"
    /\ error = "none"
    /\ closes = 0
    /\ appended = <<>>
    /\ context = <<>>
    /\ bytewise = TRUE

\* one streaming request whose model stream is made of at most n pieces
InitStream(n) == InitStreams(Streams(n))

NextChunk ==
    \/ StreamAppendUser
    \/ StreamGetHistory
    \/ StreamRun
    \/ ReadChunk
    \/ ReadDone
    \/ Finally
    \/ AppendOk
    \/ Close

InitChunk ==
    /\ InitStream(MaxFrames)
    /\ message = Hi
    /\ OthersOff
\* a relay in which nothing fails, over every chunking of the stream
SpecChunk == InitChunk /\ [][NextChunk]_vars

InitRelay ==
    /\ InitStream(MaxRelayFrames)
    /\ message = Hi
    /\ OthersOff
NextRelay ==
    \/ NextChunk
    \/ ReadError
    \/ ClientCancel
    \/ AppendFail
\* a relay in which the upstream, the client and the store can fail
SpecRelay == InitRelay /\ [][NextRelay]_vars

\* the clients of two identities
InitPair ==
    /\ StoreIdle([id \in Identities |-> MaxPairAppends])
    /\ RelayOff
    /\ message = Undefined
    /\ OthersOff
\* concurrent requests against the Durable Objects of two identities
SpecPair == InitPair /\ [][NextStore]_vars

\* one job: POST /api/task, the instance's run, status polls
InitJob ==
    /\ StoreIdle([id \in Identities |-> 0])
    /\ RelayOff
    /\ message = Undefined
    /\ OthersOff
NextJob ==
    \/ TaskCreate
    \/ TaskStatus
    \/ JobStart
    \/ PlanDo
    \/ PlanReturn
    \/ PlanRaise
    \/ ExecuteDo
    \/ ExecuteReturn
    \/ ExecuteRaise
    \/ RunReturn
    \/ Resume
SpecJob == InitJob /\ [][NextJob]_vars

\* streams without a frame that yields text, and one with such a frame
QuietStreams ==
    {<<"junk">>, <<"none">>, <<"junk", "none">>, <<"none", "junk">>, <<"none", "hel">>}
InitQuiet ==
    /\ InitStreams(QuietStreams)
    /\ message = Hi
    /\ OthersOff
\* a relay of a stream with little or no text, over every chunking
SpecQuiet == InitQuiet /\ [][NextChunk]_vars

\* the streams of the relays the client leaves: a frame with text, a frame of
\* white space or a frame without text, each with bytes after it
CancelStreams == {<<"lo">>, <<"sp", "junk">>, <<"junk", "hel">>}
InitCancel ==
    /\ InitStream(MaxFrames)
    /\ frames \in CancelStreams
    /\ message = Hi
    /\ OthersOff
\* a relay whose client can go away, with the other failures
SpecCancel == InitCancel /\ [][NextRelay]_vars

\* the streams of the turns that run next to another request: one with text,
\* one without
TurnStreams == {<<"hel">>, <<"junk">>}

\* a streaming turn and a synchronous turn of the same identity, concurrently
InitTurn ==
    /\ InitStream(MaxRelayFrames)
    /\ frames \in TurnStreams
    /\ message = Hi
    /\ chat = ChatStart(Yo)
    /\ task = TaskOff
    /\ job = NoJob
NextTurn ==
    \/ NextChunk
    \/ ReadError
    \/ ChatAppendUser
    \/ ChatGetHistory
    \/ ChatRun
    \/ ChatRunFail
    \/ ChatAppendAssistant
SpecTurn == InitTurn /\ [][NextTurn]_vars

\* one request whose body has, or lacks, its required field: a streaming
\* turn, a synchronous turn, or the /api/task requests
InitInput ==
    \/ /\ InitStream(MaxRelayFrames)
       /\ frames \in TurnStreams
       /\ message \in {Hi, Undefined}
       /\ OthersOff
    \/ /\ StoreIdle([id \in Identities |-> 0])
       /\ RelayOff
       /\ message = Undefined
       /\ chat \in {ChatStart(Yo), ChatStart(Undefined)}
       /\ task = TaskOff
       /\ job = NoJob
    \/ /\ StoreIdle([id \in Identities |-> 0])
       /\ RelayOff
       /\ message = Undefined
       /\ OthersOff
NextInput ==
    \/ NextChunk
    \/ ChatAppendUser
    \/ ChatGetHistory
    \/ ChatRun
    \/ ChatRunFail
    \/ ChatAppendAssistant
    \/ TaskCreate
    \/ TaskStatus
SpecInput == InitInput /\ [][NextInput]_vars

(***************************************************************************)
(* Claims about the Conversation Store, checked under SpecStore.           *)
(***************************************************************************)
\* no append of the identity is between its storage read and its write-back
Quiet(id) == \A r \in Reqs : req[r].id = id => req[r].pc \notin {"get", "put"}

\* C1: concurrent appends to one identity never lose an update: whenever no
\* append is in the middle of its read-modify-write, the stored length is
\* min(20, appends serialized since the history was empty) and the stored
\* content is the last 20 of them in their serialization order.
C1_NoLostUpdate ==
    \A id \in Identities :
        Quiet(id) => /\ Len(Stored(id)) = Min(Limit, Len(arrival[id]))
                     /\ Stored(id) = LastN(arrival[id], Limit)

\* two appends were in flight together, were serialized against their issue
\* order, and more than 20 appends were stored
C1_Witness ==
    \E id \in Identities :
        /\ Quiet(id)
        /\ concurrent > 0
        /\ Len(arrival[id]) > Limit
        /\ \E i \in 1..(Len(Stored(id)) - 1) :
               Stored(id)[i].content > Stored(id)[i + 1].content

\* C2: the stored history of every identity has at most 20 messages in every
\* reachable state, and so has every history a get returns.
C2_Bounded ==
    /\ \A id \in Identities : Len(Stored(id)) <= Limit
    /\ reply.op = "get" => Len(reply.body) <= Limit

\* a get returned a full history after more than 20 appends
C2_Witness ==
    /\ reply.op = "get"
    /\ Len(reply.body) = Limit
    /\ Len(reply.seen[1]) > Limit

\* C3: a get returns the last 20 of the messages appended since the history
\* was empty (all of them when there are at most 20), in append order and
\* unaltered; the stored history is that same suffix at every moment.
C3_LastTwenty ==
    /\ \A id \in Identities : Stored(id) = LastN(log[id], Limit)
    /\ reply.op = "get" =>
          /\ reply.body = LastN(reply.seen[1], Limit)
          /\ Len(reply.seen[1]) <= Limit => reply.body = reply.seen[1]

\* a get after N > 20 appends, whose answer starts at message N - 19
C3_Witness ==
    /\ reply.op = "get"
    /\ Len(reply.seen[1]) = Limit + 2
    /\ reply.body[1] = reply.seen[1][3]
    /\ reply.body[Limit] = reply.seen[1][Limit + 2]

\* C4: a get that follows a clear of its identity, with no append written in
\* between, returns the empty sequence.
C4_ClearThenGet ==
    (reply.op = "get" /\ reply.seen[2].op = "clear") => reply.body = <<>>

\* a get returned the empty sequence after a clear removed 20 messages
C4_Witness ==
    /\ reply.op = "get"
    /\ reply.seen[2].op = "clear"
    /\ reply.seen[2].full
    /\ reply.body = <<>>

(***************************************************************************)
(* Claims about the Stream Relay.                                          *)
(***************************************************************************)
\* the parser's state after the bytes arrived as one chunk
OneChunk(bytes) == ParseChunk([pending |-> <<>>, buffer |-> <<>>, full |-> <<>>], bytes)

\* C5 (SpecChunk): the transcript does not depend on the chunk boundaries:
\* however the bytes received so far were cut into chunks, the accumulated
\* text, the buffer and the decoder state are those of the same bytes
\* arriving as one chunk; at the end of the stream the transcript is that of
\* the whole stream in one chunk.
C5_ChunkInvariance ==
    [pending |-> pending, buffer |-> buffer, full |-> full] = OneChunk(Received)

\* the stream ended after it arrived byte by byte: every frame, delimiter,
\* payload and two-byte character was cut by a chunk boundary
C5_Witness ==
    /\ pc = "done"
    /\ bytewise
    /\ frames = <<"meta", "lo">>
    /\ pos = Len(upstream)
    /\ full = <<"U+00E9", "l", "o">>

\* the text each piece carries in "response" members of its data lines
PieceText(p) ==
    CASE p = "hel" -> <<"H", "e", "l">>
      [] p = "lo" -> <<"l", "o">>
      [] p = "sp" -> <<" ">>
      [] p = "junk" -> <<>>
      [] p = "meta" -> <<"U+00E9">>
      [] p = "tail" -> <<>>
      [] p = "none" -> <<>>

RECURSIVE Expected(_)
Expected(f) == IF f = <<>> THEN <<>> ELSE PieceText(Head(f)) \o Expected(Tail(f))

\* every frame of the stream ends with the delimiter
Complete(f) == \A i \in 1..Len(f) : f[i] # "tail"

\* C6 (SpecChunk): for a stream of complete frames the forwarded bytes are
\* the frames verbatim, and the message handed to the Conversation Store is
\* {assistant, C}, C the texts of the data lines in frame order (no message
\* when C has no text): empty, [DONE] and undecodable payloads add nothing.
C6_ForwardAndStore ==
    (pc = "done" /\ Complete(frames)) =>
        /\ upstream = Bytes(frames)
        /\ sent = upstream
        /\ appended = IF HasText(Expected(frames))
                      THEN <<[role |-> "assistant", content |-> Expected(frames)]>>
                      ELSE <<>>
        /\ Stored(User) = <<UserMessage>> \o appended

\* the frames "Hel", "lo" and [DONE] were relayed and "Hello" was stored
C6_Witness ==
    /\ pc = "done"
    /\ frames = <<"hel", "lo">>
    /\ sent = Piece_hel \o Piece_lo
    /\ Stored(User) = <<UserMessage,
                        [role |-> "assistant", content |-> <<"H", "e", "l", "l", "o">>]>>

IsPrefix(a, b) == Len(a) <= Len(b) /\ SubSeq(b, 1, Len(a)) = a

\* C7 (SpecRelay): the forwarded bytes are always a prefix of the bytes read,
\* unmodified and in order; whenever the next chunk is read, and when the
\* transcript is handed to the store, every chunk read before has been
\* forwarded, except the one chunk whose forwarding threw, after the client
\* went away, and ended the loop.
C7_ForwardInOrder ==
    /\ IsPrefix(sent, Received)
    /\ Received = sent \o dropped
    /\ dropped # <<>> => out = "cancelled"
    /\ pc = "read" => sent = Received
    /\ appended # <<>> => pc \in {"append", "close", "done"}

\* in the middle of a frame the bytes read so far are already forwarded, and
\* nothing has been handed to the store
C7_Witness ==
    /\ pc = "read"
    /\ 0 < pos
    /\ pos < Len(upstream)
    /\ buffer # <<>>
    /\ sent = Received
    /\ appended = <<>>

\* the loop has exited and the finally block has tested the accumulator
AfterLoop == pc \in {"append", "close", "done"}

\* C8 (SpecRelay), as amended: when the loop has exited, normally or by an
\* exception of the read or of the forwarding, exactly one append of
\* {assistant, accumulator} to the requesting identity's store is made if the
\* accumulator holds a character that is not white space, and none otherwise;
\* never more than one.
C8_OneAppendIfText ==
    /\ Len(appended) <= 1
    /\ AfterLoop =>
          appended = IF HasText(full)
                     THEN <<[role |-> "assistant", content |-> full]>>
                     ELSE <<>>
    /\ (pc \in {"close", "done"} /\ error # "append") =>
          Stored(User) = <<UserMessage>> \o appended

\* the loop exited by an exception and the partial transcript was appended
C8_Witness ==
    /\ pc = "done"
    /\ error = "read"
    /\ appended = <<[role |-> "assistant", content |-> <<"H", "e", "l">>]>>
    /\ Stored(User) = <<UserMessage>> \o appended

\* C8 as stated: a non-empty accumulator is appended exactly once
C8_AsStated ==
    AfterLoop => /\ full # <<>> => Len(appended) = 1
                 /\ full = <<>> => appended = <<>>

\* C9 (SpecRelay): when the append of the transcript fails, the response
\* stream is still closed and no error reaches it.
C9_BestEffortAppend ==
    (pc = "done" /\ error = "append") => out \in {"closed", "cancelled"}

\* C10 (SpecRelay): when the relay has ended, the response stream was closed
\* exactly once: by the one controller.close() of the finally block, or
\* before it by the client's cancellation.
C10_ClosedExactlyOnce ==
    pc = "done" => \/ out = "closed" /\ closes = 1
                   \/ out = "cancelled" /\ closes = 0

(***************************************************************************)
(* Claims about the chat turns, checked under SpecTurn.                    *)
(***************************************************************************)
\* the message the synchronous turn saves first
ChatUserMessage == [role |-> "user", content |-> chat.message]

\* the stored message is the streaming turn's assistant message
FromStream(m) == \E k \in 1..Len(appended) : appended[k] = m

\* C11 (SpecTurn): in the stored history every assistant message is preceded
\* by the user message of its turn.  The streaming turn's assistant message is
\* handed to the store only after the read loop has ended (end of input or a
\* failed read) and after the turn's user message was stored; the
\* synchronous turn's assistant message is stored after its user message.
C11_AssistantAfterUser ==
    LET h == Stored(User)
    IN  /\ appended # <<>> =>
              /\ pc \in {"append", "close", "done"}
              /\ pos = Len(upstream) \/ error # "none"
              /\ \E j \in 1..Len(h) : h[j] = UserMessage
        /\ \A i \in 1..Len(h) :
              h[i].role = "assistant" =>
                 IF FromStream(h[i])
                 THEN /\ pc \in {"close", "done"}
                      /\ \E j \in 1..(i - 1) : h[j] = UserMessage
                 ELSE /\ chat.pc = "done"
                      /\ h[i].content = chat.reply
                      /\ \E j \in 1..(i - 1) : h[j] = ChatUserMessage

\* both turns ran interleaved: user, user, assistant, assistant
C11_Witness ==
    /\ pc = "done"
    /\ chat.pc = "done"
    /\ Stored(User) = <<ChatUserMessage, UserMessage,
                        [role |-> "assistant", content |-> <<"H", "e", "l">>],
                        [role |-> "assistant", content |-> <<"O", "K">>]>>

\* C12 (SpecCancel), as amended: when forwarding a chunk fails because the
\* client went away, the loop has ended and no further chunk is read or
\* forwarded; the accumulator is the text of the frames completed by the
\* forwarded bytes, and the append is still attempted: one assistant message
\* with exactly that text when it holds a character that is not white space,
\* none otherwise.
C12_DisconnectAppend ==
    dropped # <<>> =>
        /\ out = "cancelled"
        /\ pc \in {"finally", "append", "close", "done"}
        /\ Received = sent \o dropped
        /\ full = OneChunk(sent).full
        /\ AfterLoop =>
              appended = IF HasText(full)
                         THEN <<[role |-> "assistant", content |-> full]>>
                         ELSE <<>>
        /\ (pc \in {"close", "done"} /\ error # "append") =>
              Stored(User) = <<UserMessage>> \o appended

\* the client left after the frame "lo": the partial transcript was stored
C12_Witness ==
    /\ pc = "done"
    /\ dropped # <<>>
    /\ frames = <<"lo">>
    /\ Len(sent) < Len(upstream)
    /\ Stored(User) = <<UserMessage, [role |-> "assistant", content |-> <<"l", "o">>]>>

\* C12 as stated: a non-empty partial accumulator is appended
C12_AsStated ==
    (dropped # <<>> /\ AfterLoop /\ full # <<>>) =>
        appended = <<[role |-> "assistant", content |-> full]>>

(***************************************************************************)
(* Claims about the job instance, checked under SpecJob.                   *)
(***************************************************************************)
\* C13 (SpecJob): in every run of the instance, however often it is
\* interrupted and resumed, the computation of a named step completes at most
\* once: exactly once when its result is recorded, never otherwise.  Once
\* "plan" is recorded its computation is never in flight again, a resume
\* invokes only "execute", and run() continues with the recorded results.
C13_StepMemo ==
    /\ \A n \in StepNames : job.completed[n] = IF Recorded(n) THEN 1 ELSE 0
    /\ job.pc = "planning" => ~Recorded("plan") /\ ~Recorded("execute")
    /\ job.pc = "executing" => Recorded("plan") /\ ~Recorded("execute")
    /\ job.pc \in {"execute", "executing", "return"} => job.plan = job.steps["plan"][1]
    /\ job.pc = "return" => job.result = job.steps["execute"][1]

\* the instance was interrupted while "execute" was in flight: on the resume
\* the plan was read back and only "execute" was invoked again
C13_Witness ==
    /\ job.pc = "executing"
    /\ job.resumes > 0
    /\ job.raised["execute"] = 0
    /\ job.started["execute"] = 2
    /\ job.started["plan"] = 1
    /\ job.completed["plan"] = 1

\* the spec's failed is the status the runtime reports as "errored"
Failed == "errored"
JobStatuses == {"queued", "running", "complete", Failed}

C15_StepFailure ==
    /\ \A n \in StepNames :
          job.raised[n] > 0 =>
             /\ job.status = Failed
             /\ job.error = n
             /\ ~Recorded(n)
             /\ job.raised[n] = 1
    /\ job.raised["plan"] > 0 => job.started["execute"] = 0

\* model outputs that are no JSON, or JSON without a plan array
MalformedPlans == {T_string, T_steps, T_prose, T_cut, <<>>}

\* C16 (SpecJob): when the model's output of the plan step is not valid JSON
\* or has no plan array, the recorded plan is exactly the three fallback
\* items, and the plan step has not failed the instance.
C16_PlanFallback ==
    (Recorded("plan") /\ Text(job.model) \in MalformedPlans) =>
        /\ job.steps["plan"][1] = Fallback
        /\ Len(Fallback) = 3
        /\ job.error # "plan"

\* the model answered with prose and the job completed with the fallback plan
C16_Witness ==
    /\ job.status = "complete"
    /\ Text(job.model) = T_prose
    /\ job.output[1].plan = Fallback

(***************************************************************************)
(* Claims about the requests' input, checked under SpecInput.              *)
(***************************************************************************)
\* C17 (SpecInput): a request without its required field has no side effect:
\* without message neither chat handler appends to the history nor calls the
\* model, without goal no instance is created, and without instanceId the
\* status request is answered 400.
C17_RejectMissingField ==
    /\ (pc # "off" /\ message = Undefined) =>
          Stored(User) = <<>> /\ out = "none"
    /\ (chat.pc # "off" /\ chat.message = Undefined) =>
          Stored(User) = <<>> /\ chat.pc \in {"user", "history", "run"}
    /\ job.goal = Undefined => job.status = "none"

(***************************************************************************)
(* Claims about the stores of two identities, checked under SpecPair.      *)
(***************************************************************************)
\* C18 (SpecPair): a get changes no stored history, neither when it arrives
\* nor when it answers; it always answers, with the stored history, and with
\* the empty sequence when the identity has none (nothing was appended since
\* the object was created or last cleared).
C18_GetMissing ==
    [][\A r \in Reqs :
          /\ (req[r].pc = "idle" /\ req'[r].op = "get") => storage' = storage
          /\ (req[r].op = "get" /\ req'[r].pc = "idle") =>
                /\ storage' = storage
                /\ reply'.op = "get"
                /\ reply'.id = req[r].id
                /\ reply'.body = IF storage[req[r].id] = <<>> THEN <<>>
                                 ELSE storage[req[r].id][1]
                /\ log[req[r].id] = <<>> => reply'.body = <<>>]_vars

\* a get of an identity nothing was ever appended to, next to an identity
\* with a history, answered the empty sequence
C18_Witness ==
    /\ reply.op = "get"
    /\ reply.id = "bob"
    /\ reply.body = <<>>
    /\ reply.seen[2].op = "none"
    /\ issued["bob"] = 0
    /\ Stored("alice") # <<>>

\* C19 (SpecPair): a step changes the stored history of an identity only by
\* completing an append or a clear of that identity, and leaves the history
\* of every other identity as it was; a request in flight holds the input
\* gate of its own identity only, so it never blocks a request of another.
C19_Independent ==
    /\ [][\A a \in Identities :
             storage'[a] # storage[a] =>
                /\ \E r \in Reqs : /\ req[r].id = a
                                   /\ req[r].op \in {"append", "clear"}
                                   /\ req'[r].pc = "idle"
                /\ \A b \in Identities \ {a} : storage'[b] = storage[b]]_vars
    /\ [](\A id \in Identities : gate[id] # "open" => req[gate[id]].id = id)

\* an append of one identity and a clear of the other are in flight at the
\* same time, each holding the gate of its own object
C19_Witness ==
    \E r, o \in Reqs :
        /\ req[r].id = "alice" /\ req[r].op = "append" /\ gate["alice"] = r
        /\ req[o].id = "bob" /\ req[o].op = "clear" /\ gate["bob"] = o
        /\ Stored("bob") # <<>>

(***************************************************************************)
(* Claims about streams without text, checked under SpecQuiet.             *)
(***************************************************************************)
\* no data line of the stream has a payload that decodes to an object with
\* a string "response"
Textless(f) == \A i \in 1..Len(f) : f[i] \in {"junk", "none"}

\* C20 (SpecQuiet): when no frame of the stream yields text, nothing is ever
\* accumulated or handed to the store, the forwarded bytes are always a
\* prefix of the stream, and at the end the client has received every byte
\* of the stream in order and the history holds the user message only.
C20_NoTextNothingStored ==
    Textless(frames) =>
        /\ full = <<>>
        /\ appended = <<>>
        /\ IsPrefix(sent, upstream)
        /\ pc \notin {"user"} => Stored(User) = <<UserMessage>>
        /\ pc = "done" =>
              /\ upstream = Bytes(frames)
              /\ sent = upstream
              /\ out = "closed"

\* a stream of a comment, a data line without text, [DONE], an empty and an
\* undecodable payload was relayed whole
C20_Witness ==
    /\ pc = "done"
    /\ frames = <<"none", "junk">>
    /\ sent = Piece_none \o Piece_junk
    /\ Stored(User) = <<UserMessage>>

(***************************************************************************)
(* Claims about the parser's failures, checked under SpecChunk.            *)
(***************************************************************************)
\* the stream has a data payload that is no JSON, or JSON without a text
HasBadPayload(f) == \E i \in 1..Len(f) : f[i] \in {"junk", "meta"}

\* C21 (SpecChunk): in a stream with a data payload that does not decode, or
\* decodes without a text field, the loop is never left by an exception, every
\* chunk read is forwarded, and whenever the bytes read end with a piece of
\* the stream the accumulator is the text of the well-formed frames read so
\* far, those after the skipped payload included.
C21_DecodeFailureSkipped ==
    HasBadPayload(frames) =>
        /\ error = "none"
        /\ sent = Received
        /\ \A k \in 0..Len(frames) :
              (pos = Len(Bytes(FirstN(frames, k))) /\ pending = <<>>) =>
                  full = Expected(FirstN(frames, k))
        /\ pc = "done" => out = "closed" /\ sent = Bytes(frames)

\* after an empty and an undecodable payload the frame "Hel" was forwarded
\* and accumulated
C21_Witness ==
    /\ pc = "done"
    /\ frames = <<"junk", "hel">>
    /\ sent = Piece_junk \o Piece_hel
    /\ full = <<"H", "e", "l">>
    /\ Stored(User) = <<UserMessage, [role |-> "assistant", content |-> full]>>

(***************************************************************************)
(* Claims about the order of the steps, checked under SpecJob.             *)
(***************************************************************************)
\* C22 (SpecJob): the execute computation is never invoked before a result is
\* recorded for the plan step; the plan it puts in its prompt, the plan run()
\* holds once step.do("plan") has resolved, and the plan of the output are
\* the recorded plan, after a resume too.
C22_PlanBeforeExecute ==
    /\ job.started["execute"] > 0 => Recorded("plan")
    /\ job.pc \in {"executing", "return"} =>
          Recorded("plan") /\ job.plan = job.steps["plan"][1]
    /\ job.prompt # <<>> =>
          Recorded("plan") /\ job.prompt[1] = job.steps["plan"][1]
    /\ job.output # <<>> =>
          Recorded("plan") /\ job.output[1].plan = job.steps["plan"][1]

\* a resumed instance whose execute computation ran with the plan recorded
\* before the interruption, and which returned that plan
C22_Witness ==
    /\ job.status = "complete"
    /\ job.resumes > 0
    /\ job.started["plan"] = 1
    /\ job.completed["execute"] = 1
    /\ job.prompt = <<job.steps["plan"][1]>>
    /\ job.output[1].plan = job.steps["plan"][1]
    /\ job.output[1].plan = <<<<"a">>, <<"b">>, <<"c">>>>

(***************************************************************************)
(* The job when every inference call returns: no step computation throws.  *)
(* The runtime keeps running an instance that can take a step; it          *)
(* interrupts and resumes it at most MaxResumes times.                     *)
(***************************************************************************)
\* the steps the runtime and run() take on their own
Engine ==
    \/ JobStart
    \/ PlanDo
    \/ PlanReturn
    \/ ExecuteDo
    \/ ExecuteReturn
    \/ RunReturn
NextRun ==
    \/ TaskCreate
    \/ TaskStatus
    \/ Engine
    \/ Resume
SpecRun == InitJob /\ [][NextRun]_vars /\ WF_vars(Engine)

\* C23 (SpecRun): when every inference call returns, a created job is
\* eventually complete, and a job is complete only with both steps recorded
\* and with the output {plan, result} made of the two recorded results.
C23_Termination ==
    /\ [](job.status = "complete" =>
            /\ Recorded("plan")
            /\ Recorded("execute")
            /\ job.output = <<[plan |-> job.steps["plan"][1],
                               result |-> job.steps["execute"][1]]>>)
    /\ (job.status = "queued") ~> (job.status = "complete")
    /\ [](job.status = "running" => <>(job.status = "complete"))

\* a job interrupted as often as the bound allows, complete with the fallback
\* plan and the text of the execute step
C23_Witness ==
    /\ job.status = "complete"
    /\ job.resumes = MaxResumes
    /\ job.output = <<[plan |-> Fallback, result |-> <<"R">>]>>
    /\ job.steps["plan"] = <<Fallback>>
    /\ job.steps["execute"] = <<<<"R">>>>

(***************************************************************************)
(* Claims about the size of the plan, checked under SpecJob.               *)
(***************************************************************************)
\* the elements of the plan array in the model's output, each as a string
PlanArray(text) ==
    IF text = T_four THEN <<<<"a">>, <<"b">>, <<"c">>, <<"d">>>>
    ELSE IF text = T_one THEN <<<<"a">>>>
    ELSE IF text = T_mixed THEN <<<<"1">>, <<"b">>>>
    ELSE <<>>

\* C24 (SpecJob): the recorded plan has at most three items. When the model's
\* output is a JSON object whose plan is an array, the recorded plan is the
\* first min(3, length) elements of the array, as strings and in their order,
\* an empty array giving an empty plan; for every other output it is the
\* three fallback items.
C24_PlanAtMostThree ==
    Recorded("plan") =>
        LET text == Text(job.model)
            elements == PlanArray(text)
            plan == job.steps["plan"][1]
        IN  /\ Len(plan) <= 3
            /\ text \in {T_four, T_one, T_empty, T_mixed} =>
                  /\ Len(plan) = Min(3, Len(elements))
                  /\ \A i \in 1..Len(plan) : plan[i] = elements[i]
            /\ text \notin {T_four, T_one, T_empty, T_mixed} =>
                  plan = Fallback

\* four items were cut to the first three, and the job completed with them
C24_Witness ==
    /\ job.status = "complete"
    /\ Text(job.model) = T_four
    /\ job.steps["plan"] = <<<<<<"a">>, <<"b">>, <<"c">>>>>>
    /\ job.output[1].plan = <<<<"a">>, <<"b">>, <<"c">>>>

(***************************************************************************)
(* A job that is polled while a synchronous chat turn of the caller runs.  *)
(***************************************************************************)
InitPoll ==
    /\ StoreIdle([id \in Identities |-> 0])
    /\ RelayOff
    /\ message = Undefined
    /\ chat = ChatStart(Hi)
    /\ task = TaskOff
    /\ job = NoJob
NextPoll ==
    \/ NextRun
    \/ ChatAppendUser
    \/ ChatGetHistory
    \/ ChatRun
    \/ ChatRunFail
    \/ ChatAppendAssistant
SpecPoll == InitPoll /\ [][NextPoll]_vars

\* C25 (SpecPoll): a status poll changes neither the job (its status, its
\* recorded steps, its output) nor any conversation history, and a poll that
\* names the instance is answered with the job's status whatever that is.
C25_PollReadOnly ==
    [][(task' # task /\ task'.op = "status") =>
          /\ job' = job
          /\ storage' = storage
          /\ task'.response.status = 200 =>
                task'.response.state = job.status]_vars

\* a poll has seen the job running while its plan step was recorded and the
\* history held the chat turn
C25_Witness ==
    /\ task.op = "status"
    /\ task.response = [status |-> 200, state |-> "running"]
    /\ job.status = "running"
    /\ Recorded("plan")
    /\ Len(Stored(User)) = 2

(***************************************************************************)
(* The two chat turns with a store that can fail before the model is       *)
(* called.                                                                 *)
(***************************************************************************)
NextFault ==
    \/ NextTurn
    \/ StreamAppendUserFail
    \/ StreamGetHistoryFail
    \/ ChatAppendUserFail
    \/ ChatGetHistoryFail
SpecFault == InitTurn /\ [][NextFault]_vars

\* the history holds an assistant message of the synchronous turn
ChatAssistantStored ==
    \E i \in 1..Len(Stored(User)) :
        Stored(User)[i].role = "assistant" /\ ~FromStream(Stored(User)[i])

\* C26 (SpecFault): when the append of the user message or the read of the
\* history fails, the request has failed with an error, the model was never
\* called for it and no assistant message of the turn is appended: for
\* /api/chat no reply exists and none is stored, for /api/chat/stream no
\* response stream exists, nothing was read from the model and no append of
\* an assistant message was attempted.
C26_StoreFailurePropagated ==
    /\ chat.fault \in {"append", "read"} =>
          /\ chat.pc = "failed"
          /\ chat.response = [status |-> 500]
          /\ chat.reply = Undefined
          /\ ~ChatAssistantStored
    /\ error = "store" =>
          /\ pc = "failed"
          /\ out = "none"
          /\ upstream = <<>>
          /\ sent = <<>>
          /\ appended = <<>>
          /\ \A i \in 1..Len(Stored(User)) :
                Stored(User)[i].role = "assistant" => ~FromStream(Stored(User)[i])

\* the synchronous turn failed at its history read and the streaming turn at
\* its append: only the synchronous turn's user message is stored
C26_Witness ==
    /\ chat.fault = "read"
    /\ chat.pc = "failed"
    /\ error = "store"
    /\ pc = "failed"
    /\ context = <<>>
    /\ Stored(User) = <<ChatUserMessage>>

(***************************************************************************)
(* Claims about the synchronous turn, checked under SpecTurn.              *)
(***************************************************************************)
\* the stored message is not one of the streaming turn
FromChat(m) == m # UserMessage /\ ~FromStream(m)
\* what the synchronous turn has appended to the history, in order
ChatAppended == SelectSeq(Stored(User), FromChat)

\* C27 (SpecTurn): when the inference call of the synchronous turn fails the
\* request fails, the turn's user message stays in the history and no
\* assistant message of the turn is appended; when the turn succeeds it has
\* appended exactly two messages, the user message and then the assistant
\* message, whose content is the reply returned to the caller.
C27_SyncTurn ==
    /\ chat.fault = "model" =>
          /\ chat.pc = "failed"
          /\ chat.response = [status |-> 500]
          /\ ChatAppended = <<ChatUserMessage>>
    /\ chat.pc = "done" =>
          /\ chat.response.status = 200
          /\ ChatAppended =
                <<ChatUserMessage,
                  [role |-> "assistant", content |-> chat.response.reply]>>

\* the inference call failed after the streaming turn had stored its messages
C27_Witness ==
    /\ chat.fault = "model"
    /\ chat.pc = "failed"
    /\ pc = "done"
    /\ Stored(User) = <<UserMessage, ChatUserMessage,
                        [role |-> "assistant", content |-> <<"H", "e", "l">>]>>

(***************************************************************************)
(* Claims about what the relay stores, checked under SpecChunk.            *)
(***************************************************************************)
\* C28 (SpecChunk): once the loop has exited the relay has made an append of
\* an assistant message if and only if the accumulator holds a character that
\* is not white space; the content handed to the store, and stored, is the
\* accumulator as it is, with its leading and trailing white space.
C28_AppendIffNonBlank ==
    AfterLoop =>
        /\ appended # <<>> <=> \E i \in 1..Len(full) : full[i] \notin WhiteSpace
        /\ appended # <<>> =>
              /\ appended = <<[role |-> "assistant", content |-> full]>>
              /\ Len(appended[1].content) = Len(full)
        /\ pc = "done" =>
              Stored(User) =
                 IF \E i \in 1..Len(full) : full[i] \notin WhiteSpace
                 THEN <<UserMessage, [role |-> "assistant", content |-> full]>>
                 ELSE <<UserMessage>>

\* the transcript " Hel" was stored with its leading blank
C28_Witness ==
    /\ pc = "done"
    /\ frames = <<"sp", "hel">>
    /\ full = <<" ", "H", "e", "l">>
    /\ Stored(User) = <<UserMessage, [role |-> "assistant", content |-> <<" ", "H", "e", "l">>]>>

\* the stream ends with a frame that lacks its delimiter
Unterminated(f) == f # <<>> /\ f[Len(f)] = "tail"

\* C29 (SpecChunk): when the stream ends with a frame that is not terminated
\* by the delimiter, the bytes of that frame are forwarded with the rest, but
\* its text is never accumulated: after the loop the frame is still in the
\* buffer, the accumulator is the text of the frames before it, and that is
\* what is stored.
C29_UnterminatedFrame ==
    (Unterminated(frames) /\ pc \in {"finally", "append", "close", "done"}) =>
        LET before == FirstN(frames, Len(frames) - 1)
        IN  /\ sent = Bytes(before) \o Piece_tail
            /\ buffer = Piece_tail
            /\ full = Expected(before)
            /\ pc = "done" =>
                  Stored(User) =
                     IF HasText(Expected(before))
                     THEN <<UserMessage,
                            [role |-> "assistant", content |-> Expected(before)]>>
                     ELSE <<UserMessage>>

\* "Hel" and an unterminated frame with the text "x" were forwarded, "Hel"
\* alone was stored
C29_Witness ==
    /\ pc = "done"
    /\ frames = <<"hel", "tail">>
    /\ sent = Piece_hel \o Piece_tail
    /\ buffer = Piece_tail
    /\ Stored(User) = <<UserMessage, [role |-> "assistant", content |-> <<"H", "e", "l">>]>>

=============================================================================
